---- MODULE Spec2Model ----
(***************************************************************************)
(* Model of the pog-lang lexer: Parser::parse driving                      *)
(* Tokenizer::get_next_token over the ordered pattern table TOKEN_REGEXES. *)
(* Text is a sequence of one-character strings; offsets are 0-based byte   *)
(* offsets as in the Rust code (the modelled alphabet is ASCII).           *)
(***************************************************************************)
EXTENDS Integers, Sequences, FiniteSets, TLC

VARIABLES
  code,      \* Tokenizer.code: the input text
  cursor,    \* Tokenizer.cursor
  tokens,    \* the vector parse is filling
  pc,        \* "init": no Parser yet; "call": parse is about to call get_next_token;
             \* "recurse": get_next_token is about to call itself after a
             \* skipped match; "done": parse returned; "panicked"
  returned,  \* what the caller of parse received
  failure,   \* the arguments of the panic message, once raised
  matches,   \* history: one record per committed match
  extra,     \* get_next_token calls made after parse returned
  other      \* the scan state of a second, independent Parser

vars == <<code, cursor, tokens, pc, returned, failure, matches, extra, other>>

(* ---------------------------- bounds ---------------------------------- *)

\* longest input drawn from Alphabet
MaxLen == 4

\* cap on the length of the match history; no scan of a modelled input
\* commits that many matches
MaxMatches == 32

\* number of get_next_token calls made after parse has returned
MaxExtraCalls == 2

\* longest input of the enumerated pairs of inputs of two scans
MaxPairLen == 3

\* characters the inputs of two scans are built from
PairAlphabet == {"a", " ", "@"}

\* characters the enumerated inputs are built from
Alphabet == {"a", "4", " ", "'", "\"", "+", "=", "/", "@"}

(* ------------------------- text helpers ------------------------------- *)

\* s[a..b) with 0-based offsets, as a Rust slice &s[a..b]
Sub(s, a, b) == SubSeq(s, a + 1, b)

Min(S) == CHOOSE x \in S : \A y \in S : x <= y

SpaceChars == {" ", "\n", "\t"}

DigitChars == {"0", "1", "2", "3", "4", "5", "6", "7", "8", "9"}

LetterChars ==
  {"a", "b", "c", "d", "e", "f", "g", "h", "i", "j", "k", "l", "m",
   "n", "o", "p", "q", "r", "s", "t", "u", "v", "w", "x", "y", "z",
   "M", "S", "T", "_"}

WordChars == LetterChars \cup DigitChars

\* end offset of the longest run of characters of s, from offset k, that
\* belong to C (a greedy character-class repetition)
Run(s, k, C) ==
  CHOOSE e \in k..Len(s) :
    /\ \A j \in (k + 1)..e : s[j] \in C
    /\ (e = Len(s) \/ s[e + 1] \notin C)

\* the same for a negated class: the longest run of characters not in C
RunNot(s, k, C) ==
  CHOOSE e \in k..Len(s) :
    /\ \A j \in (k + 1)..e : s[j] \notin C
    /\ (e = Len(s) \/ s[e + 1] \in C)

IsLetter(c) == c \in LetterChars
IsWord(c) == c \in WordChars

\* does the literal text w occur in s at offset k
HasAt(s, k, w) == k + Len(w) <= Len(s) /\ Sub(s, k, k + Len(w)) = w

(* ------------------------- regex matching ----------------------------- *)

\* a capture: the span of group 0 and of group 1 (<<>> when the pattern
\* has no group 1); NoMatch when the pattern does not match
NoMatch == [g0 |-> <<>>, g1 |-> <<>>]

Cap(s0, e0) == [g0 |-> <<s0, e0>>, g1 |-> <<>>]

CapG(s0, e0, s1, e1) == [g0 |-> <<s0, e0>>, g1 |-> <<s1, e1>>]

\* the match of pattern p beginning exactly at offset k of s
MatchAt(p, s, k) ==
  CASE p.kind = "ws" ->
         LET e == Run(s, k, SpaceChars) IN IF e > k THEN Cap(k, e) ELSE NoMatch
    [] p.kind = "line" ->
         IF HasAt(s, k, <<"/", "/">>)
           THEN Cap(k, RunNot(s, k + 2, {"\n"})) ELSE NoMatch
    [] p.kind = "block" ->
         IF HasAt(s, k, <<"/", "*">>)
              /\ \E j \in (k + 2)..Len(s) : HasAt(s, j, <<"*", "/">>)
           THEN Cap(k, 2 + Min({j \in (k + 2)..Len(s) : HasAt(s, j, <<"*", "/">>)}))
           ELSE NoMatch
    [] p.kind = "word" ->
         IF /\ HasAt(s, k, p.text)
            /\ (k = 0 \/ ~IsWord(s[k]))
            /\ (k + Len(p.text) = Len(s) \/ ~IsWord(s[k + Len(p.text) + 1]))
           THEN Cap(k, k + Len(p.text)) ELSE NoMatch
    [] p.kind = "lit" ->
         IF HasAt(s, k, p.text) THEN Cap(k, k + Len(p.text)) ELSE NoMatch
    [] p.kind = "ident" ->
         IF k < Len(s) /\ IsLetter(s[k + 1])
           THEN Cap(k, Run(s, k + 1, WordChars)) ELSE NoMatch
    [] p.kind = "int" ->
         LET e == Run(s, k, DigitChars) IN IF e > k THEN Cap(k, e) ELSE NoMatch
    [] p.kind = "char" ->
         IF /\ k + 3 <= Len(s)
            /\ s[k + 1] = "'" /\ s[k + 2] \notin {"'", "\n"} /\ s[k + 3] = "'"
           THEN CapG(k, k + 3, k + 1, k + 2) ELSE NoMatch
    [] p.kind = "str" ->
         IF k < Len(s) /\ s[k + 1] = "\""
           THEN LET e == RunNot(s, k + 1, {"\""})
                IN IF e < Len(s) THEN CapG(k, e + 1, k + 1, e) ELSE NoMatch
           ELSE NoMatch

\* Regex::captures: the leftmost match in s; a pattern that starts with ^
\* can only match at offset 0
Captures(p, s) ==
  LET starts == IF p.anchored THEN {0} ELSE 0..Len(s)
      hits == {k \in starts : MatchAt(p, s, k) # NoMatch}
  IN IF hits = {} THEN NoMatch ELSE MatchAt(p, s, Min(hits))

(* --------------------------- pattern table ---------------------------- *)

\* the token categories (TokenType, with Literal refined by DataType)
TokenTypes ==
  {"None", "Keyword", "DataType", "Identifier", "Literal(Integer)",
   "Literal(Character)", "Literal(String)", "UnaryOperator",
   "BinaryOperator", "AssignmentOperator", "Delimiter"}

\* variant: the patterns carry no start anchor
Entry_unanchored(kind, text, type) ==
  [kind |-> kind, text |-> text, anchored |-> FALSE, type |-> type]

\* one table entry: a pattern anchored to the start of the text, and the
\* category it yields
Entry(kind, text, type) ==
  [kind |-> kind, text |-> text, anchored |-> TRUE, type |-> type]

Class(kind, type) == Entry(kind, <<>>, type)

Keywords ==
  << <<"b", "r", "e", "a", "k">>,
     <<"c", "o", "n", "t", "i", "n", "u", "e">>,
     <<"e", "l", "i", "f">>,
     <<"e", "l", "s", "e">>,
     <<"f", "u", "n">>,
     <<"i", "f">>,
     <<"r", "e", "t", "u", "r", "n">>,
     <<"w", "h", "i", "l", "e">> >>

DataTypes == << <<"c", "h", "a", "r">>, <<"i", "n", "t">>, <<"s", "t", "r">> >>

\* the ordered pattern table: discards first, reserved words before the
\* identifier pattern, every compound operator before its prefix
TOKEN_REGEXES ==
  << Class("ws", "None"), Class("line", "None"), Class("block", "None") >>
  \o [i \in 1..Len(Keywords) |-> Entry("word", Keywords[i], "Keyword")]
  \o [i \in 1..Len(DataTypes) |-> Entry("word", DataTypes[i], "DataType")]
  \o << Class("ident", "Identifier"),
        Class("int", "Literal(Integer)"),
        Class("char", "Literal(Character)"),
        Class("str", "Literal(String)"),
        Entry("lit", <<"+", "+">>, "UnaryOperator"),
        Entry("lit", <<"-", "-">>, "UnaryOperator"),
        Entry("lit", <<"+", "=">>, "AssignmentOperator"),
        Entry("lit", <<"-", "=">>, "AssignmentOperator"),
        Entry("lit", <<"*", "=">>, "AssignmentOperator"),
        Entry("lit", <<"/", "=">>, "AssignmentOperator"),
        Entry("lit", <<"=", "=">>, "BinaryOperator"),
        Entry("lit", <<"!", "=">>, "BinaryOperator"),
        Entry("lit", <<">", "=">>, "BinaryOperator"),
        Entry("lit", <<"<", "=">>, "BinaryOperator"),
        Entry("lit", <<"=">>, "AssignmentOperator"),
        Entry("lit", <<">">>, "BinaryOperator"),
        Entry("lit", <<"<">>, "BinaryOperator"),
        Entry("lit", <<"+">>, "BinaryOperator"),
        Entry("lit", <<"-">>, "BinaryOperator"),
        Entry("lit", <<"/">>, "BinaryOperator"),
        Entry("lit", <<"*">>, "BinaryOperator"),
        Entry("lit", <<";">>, "Delimiter"),
        Entry("lit", <<"{">>, "Delimiter"),
        Entry("lit", <<"}">>, "Delimiter") >>

(* --------------------------- Tokenizer -------------------------------- *)

\* variant: the comparison is off by one
has_more_tokens_le(c, cur) == cur <= Len(c)

\* Tokenizer::has_more_tokens
has_more_tokens(c, cur) == cur < Len(c)

\* the unconsumed suffix: self.code.split_at(self.cursor).1
unparsed_code(c, cur) == Sub(c, cur, Len(c))

\* the table entries, in table order, whose pattern matches the text
Matching(s) ==
  {i \in 1..Len(TOKEN_REGEXES) : Captures(TOKEN_REGEXES[i], s) # NoMatch}

Max(S) == CHOOSE x \in S : \A y \in S : x >= y

\* variant: the loop keeps going and the last matching entry wins
FirstMatch_last(s) == IF Matching(s) = {} THEN 0 ELSE Max(Matching(s))

\* the entry the for loop commits to: the first one that matches (0: none)
FirstMatch(s) == IF Matching(s) = {} THEN 0 ELSE Min(Matching(s))

\* variant: the token is always taken from the whole match
SelectedMatch_whole(cap) == cap.g0

\* the Match the token is taken from: capture group 1 when the pattern
\* defines it, the whole match otherwise
SelectedMatch(cap) == IF cap.g1 # <<>> THEN cap.g1 ELSE cap.g0

\* variant: the cursor is moved by the start of the match
MatchEnd_start(m) == m[1]

\* Match::end, the offset the cursor is moved by
MatchEnd(m) == m[2]

\* the extra step over the starting and ending character of a quoted literal
QuoteSkip(type) ==
  IF type \in {"Literal(Character)", "Literal(String)"} THEN 2 ELSE 0

\* variant: the check for skipped categories is missing
IsSkipped_never(type) == FALSE

\* a token is skipped (whitespace or comment)
IsSkipped(type) == type = "None"

\* variant: the lexeme runs from the start of the match to the end of
\* the text
NewToken_rest(type, s, m) == [type |-> type, lexeme |-> Sub(s, m[1], Len(s))]

\* Token::new(token_type, matches.as_str())
NewToken(type, s, m) == [type |-> type, lexeme |-> Sub(s, m[1], m[2])]

(* ----------------------------- Parser --------------------------------- *)

NoResult == [ok |-> FALSE, tokens |-> <<>>]

\* parse returns the vector when get_next_token yields None
Returned(toks) == [ok |-> TRUE, tokens |-> toks]

\* variant: the failure is swallowed and the tokens so far are returned
Unwound_partial(toks) == Returned(toks)

\* a panic in get_next_token unwinds through parse: the vector is dropped
\* and the caller receives nothing
Unwound(toks) == NoResult

\* variant: the message shows the whole input
PanicMessage_whole(c, cur) == <<[arg |-> "unparsed_code", val |-> c]>>

\* the arguments formatted into the panic message: the unconsumed text
PanicMessage(c, cur) ==
  <<[arg |-> "unparsed_code", val |-> unparsed_code(c, cur)]>>

\* a scan that has not started: Parser::init was not called yet
Idle ==
  [code |-> <<>>, cursor |-> 0, tokens |-> <<>>, pc |-> "init",
   returned |-> NoResult, failure |-> <<>>]

\* test_lexing_if_else
IfElseInput ==
  <<"i", "f", " ", "a", "=", "=", "b", " ", "{", " ", "a", "+", "+", ";", " ",
    "}", " ", "e", "l", "s", "e", " ", "{", " ", "-", "-", "a", ";", " ", "}">>

\* the operator list of the documented operator example
OperatorsInput ==
  <<"+", " ", "-", " ", "/", " ", "*", " ", "=", "=", " ", "!", "=", " ",
    ">", "=", " ", ">", " ", "<", "=", " ", "<", " ", "=", " ", "+", "=", " ",
    "-", "=", " ", "*", "=", " ", "/", "=">>

\* test_lexing_datatypes
DataTypesInput == <<"c", "h", "a", "r", " ", "i", "n", "t", " ", "s", "t", "r">>

\* test_lexing_keywords
KeywordsInput ==
  <<"b", "r", "e", "a", "k", " ", "c", "o", "n", "t", "i", "n", "u", "e", " ",
    "e", "l", "i", "f", " ", "e", "l", "s", "e", " ", "f", "u", "n", " ",
    "i", "f", " ", "r", "e", "t", "u", "r", "n", " ", "w", "h", "i", "l", "e">>

\* reserved words next to identifiers that contain them, after a quoted
\* literal, and after a comment
ReservedProbes ==
  { <<"i", "f", "f", "y", " ", "i", "f">>,
    <<"'", "c", "'", " ", "i", "n", "t", "\n", "i", "n", "t", "4">>,
    <<"/", "/", " ", "i", "f", "\n", "e", "l", "s", "e", "\t", "s", "t", "r">> }

\* the inputs of the tests and of the documented examples
TestInputs ==
  { <<"'", "c", "'">>,
    <<"4", "2">>,
    <<"\"", "T", "h", "i", "s", " ", "i", "s", " ", "S", "t", "r", "i", "n", "g", "\"">>,
    DataTypesInput,
    KeywordsInput,
    <<"=", " ", "+", "=", " ", "-", "=", " ", "*", "=", " ", "/", "=">>,
    <<"a", " ", "+", "=", " ", "4", "2", ";">>,
    IfElseInput,
    OperatorsInput,
    <<"/", "*", " ", "m", "u", "l", "t", "i", "\n", "l", "i", "n", "e", " ",
      "*", "/", " ", "4", "2", " ", "/", "/", " ", "t", "r", "a", "i", "l",
      "i", "n", "g">> }

\* every text over Alphabet of at most MaxLen characters
BoundedInputs == UNION {[1..n -> Alphabet] : n \in 0..MaxLen}

Inputs == BoundedInputs \cup TestInputs \cup ReservedProbes

\* before main builds the Parser
Init ==
  /\ code = <<>>
  /\ cursor = 0
  /\ tokens = <<>>
  /\ pc = "init"
  /\ returned = NoResult
  /\ failure = <<>>
  /\ matches = <<>>
  /\ extra = 0
  /\ other = Idle

\* Parser::init(code), Tokenizer::init(code) and the first line of parse
ParserInit ==
  /\ pc = "init"
  /\ code' \in Inputs
  /\ cursor' = 0
  /\ tokens' = <<>>
  /\ pc' = "call"
  /\ UNCHANGED <<returned, failure, matches, extra, other>>

Running == pc \in {"call", "recurse"} /\ Len(matches) < MaxMatches

\* variant: the check for skipped categories comes before the cursor is
\* moved, so a skipped match recurses at the same cursor
Commit_skipfirst(cur, s, i, cap) ==
  LET type == TOKEN_REGEXES[i].type
      m == SelectedMatch(cap)
  IN [at |-> cur, idx |-> i, type |-> type, g0 |-> cap.g0, m |-> m,
      skipped |-> IsSkipped(type),
      token |-> NewToken(type, s, m),
      after |-> IF IsSkipped(type) THEN cur
                ELSE cur + MatchEnd(m) + QuoteSkip(type)]

\* the outcome of committing to the capture cap of table entry i, found in
\* the unconsumed text s with the cursor at cur: the token, where the
\* cursor is left, and whether the match is skipped
Commit(cur, s, i, cap) ==
  LET type == TOKEN_REGEXES[i].type
      m == SelectedMatch(cap)
  IN [at |-> cur, idx |-> i, type |-> type, g0 |-> cap.g0, m |-> m,
      skipped |-> IsSkipped(type),
      token |-> NewToken(type, s, m),
      after |-> IF IsSkipped(type) THEN cur + MatchEnd(m)
                ELSE cur + MatchEnd(m) + QuoteSkip(type)]

\* the for loop fell through: no entry matches
NoCommit == [idx |-> 0]

\* the record of the match get_next_token commits to at the cursor: the
\* capture of the first matching entry in the unconsumed text (the text,
\* the entry and the capture are each computed once)
Committed(c, cur) ==
  CHOOSE r \in
    UNION { UNION { IF i = 0 THEN {NoCommit}
                    ELSE { Commit(cur, s, i, cap) :
                             cap \in {Captures(TOKEN_REGEXES[i], s)} } :
                    i \in {FirstMatch(s)} } :
            s \in {unparsed_code(c, cur)} } : TRUE

\* get_next_token at the end of the text: None; parse breaks and returns
EndOfInput ==
  /\ Running
  /\ ~has_more_tokens(code, cursor)
  /\ pc' = "done"
  /\ returned' = Returned(tokens)
  /\ UNCHANGED <<code, cursor, tokens, failure, matches, extra, other>>

\* get_next_token commits a match of category None and calls itself
Skip ==
  /\ Running
  /\ has_more_tokens(code, cursor)
  /\ \E r \in {Committed(code, cursor)} :
       /\ r.idx # 0
       /\ r.skipped
       /\ cursor' = r.after
       /\ matches' = Append(matches, r)
  /\ pc' = "recurse"
  /\ UNCHANGED <<code, tokens, returned, failure, extra, other>>

\* get_next_token commits a match and returns its token; parse pushes it
Emit ==
  /\ Running
  /\ has_more_tokens(code, cursor)
  /\ \E r \in {Committed(code, cursor)} :
       /\ r.idx # 0
       /\ ~r.skipped
       /\ cursor' = r.after
       /\ tokens' = Append(tokens, r.token)
       /\ matches' = Append(matches, r)
  /\ pc' = "call"
  /\ UNCHANGED <<code, returned, failure, extra, other>>

\* no entry matches: panic with the unconsumed text in the message
Panic ==
  /\ Running
  /\ has_more_tokens(code, cursor)
  /\ Committed(code, cursor).idx = 0
  /\ pc' = "panicked"
  /\ failure' = PanicMessage(code, cursor)
  /\ returned' = Unwound(tokens)
  /\ UNCHANGED <<code, cursor, tokens, matches, extra, other>>

Next == ParserInit \/ EndOfInput \/ Skip \/ Emit \/ Panic

Spec == Init /\ [][Next]_vars

\* parse runs to completion: the loop is never suspended
FairSpec == Spec /\ WF_vars(Next)

\* get_next_token is called on a Tokenizer whose parse has returned: it
\* is at the end of the text and returns None
CallAgain ==
  /\ pc = "done"
  /\ extra < MaxExtraCalls
  /\ ~has_more_tokens(code, cursor)
  /\ extra' = extra + 1
  /\ UNCHANGED <<code, cursor, tokens, pc, returned, failure, matches, other>>

AgainNext == Next \/ CallAgain

\* parse, followed by further calls on the exhausted Tokenizer
AgainSpec == Init /\ [][AgainNext]_vars

(* --------------------------- a second scan --------------------------- *)

\* the state of a Parser whose parse was just entered on the text c
Started(c) == [Idle EXCEPT !.code = c, !.pc = "call"]

\* variant: the cursor is a static shared by all Tokenizers
OwnCursor_static(st, shared) == shared

\* the cursor a Tokenizer works on: its own field (shared: the cursor of
\* the other Tokenizer)
OwnCursor(st, shared) == st.cursor

\* one get_next_token invocation, with what parse does with its result, on
\* the scan state st
ScanStep(st) ==
  IF ~has_more_tokens(st.code, st.cursor)
    THEN [st EXCEPT !.pc = "done", !.returned = Returned(st.tokens)]
    ELSE LET r == Committed(st.code, st.cursor)
         IN IF r.idx = 0
              THEN [st EXCEPT !.pc = "panicked",
                              !.failure = PanicMessage(st.code, st.cursor),
                              !.returned = Unwound(st.tokens)]
            ELSE IF r.skipped
              THEN [st EXCEPT !.cursor = r.after, !.pc = "recurse"]
            ELSE [st EXCEPT !.cursor = r.after,
                            !.tokens = Append(st.tokens, r.token),
                            !.pc = "call"]

\* the inputs of the two scans
PairInputs ==
  UNION {[1..n -> PairAlphabet] : n \in 0..MaxPairLen}
    \cup { <<"'", "c", "'">>, <<"a", " ", "+", "=", " ", "4", "2", ";">> }

\* two Parsers are built, each on its own text
PairInit ==
  /\ pc = "init"
  /\ other.pc = "init"
  /\ code' \in PairInputs
  /\ cursor' = 0
  /\ tokens' = <<>>
  /\ pc' = "call"
  /\ other' \in {Started(c) : c \in PairInputs}
  /\ UNCHANGED <<returned, failure, matches, extra>>

\* the second Parser makes its next get_next_token call
OtherCall ==
  /\ other.pc \in {"call", "recurse"}
  /\ other' = ScanStep([other EXCEPT !.cursor = OwnCursor(other, cursor)])
  /\ UNCHANGED <<code, cursor, tokens, pc, returned, failure, matches, extra>>

TwoNext == PairInit \/ EndOfInput \/ Skip \/ Emit \/ Panic \/ OtherCall

\* two scans whose calls interleave in any order
TwoSpec == Init /\ [][TwoNext]_vars

TypeOK ==
  /\ cursor \in Nat
  /\ pc \in {"init", "call", "recurse", "done", "panicked"}
  /\ \A i \in 1..Len(tokens) : tokens[i].type \in TokenTypes

(* ----------------------------- properties ----------------------------- *)

Finished == pc \in {"done", "panicked"}

\* the history cap never stops a scan
NeverCapped == ~Finished => Len(matches) < MaxMatches

\* the committed matches that produced a token, in order
Emitted == SelectSeq(matches, LAMBDA r : ~r.skipped)

Quoted == {"Literal(Character)", "Literal(String)"}

\* the length of the whole matched span of a committed match
SpanLen(r) == r.g0[2] - r.g0[1]

\* C1: every committed match, of any category, moves the cursor by exactly
\* the length of the whole matched span, so the next call starts at the
\* first byte after the consumed text.
C1_AdvanceBySpan ==
  \A i \in 1..Len(matches) : matches[i].after = matches[i].at + SpanLen(matches[i])

\* C2: the cursor always lies within 0..length of the input, and no call
\* decreases it.
C2_CursorInBounds ==
  /\ 0 <= cursor /\ cursor <= Len(code)
  /\ \A i \in 1..Len(matches) : matches[i].at <= matches[i].after

\* C3: on every input the scan ends, in EndOfInput (parse returns) or in
\* the one failure, and nothing happens after that.
C3_Terminates ==
  /\ <>Finished
  /\ [][~Finished /\ (pc' = "panicked" => failure = <<>>)]_vars

C3_Witness ==
  /\ Finished
  /\ Len(matches) >= 3
  /\ \E i \in 1..Len(matches) : matches[i].skipped

\* C4: every committed match, skipped or not, strictly increases the
\* cursor, so a scan commits at most one match per input byte.
C4_StrictProgress ==
  /\ \A i \in 1..Len(matches) : matches[i].after > matches[i].at
  /\ Len(matches) <= Len(code)

C4_Witness ==
  /\ \E i \in 1..Len(matches) : matches[i].skipped
  /\ \E i \in 1..Len(matches) : ~matches[i].skipped
  /\ Len(matches) >= 3

\* the delimiter of a quoted literal category
DelimiterOf(type) == IF type = "Literal(Character)" THEN "'" ELSE "\""

C6_NoDiscardToken ==
  /\ \A j \in 1..Len(tokens) : tokens[j].type # "None"
  /\ \A i \in 1..Len(matches) : matches[i].skipped <=> matches[i].type = "None"
  /\ Len(tokens) = Len(Emitted)
  /\ returned.ok => returned.tokens = tokens

C6_Witness ==
  /\ pc = "done"
  /\ Len(tokens) >= 1
  /\ Cardinality({i \in 1..Len(matches) : matches[i].skipped}) >= 2

\* C7: when no entry matches the unconsumed text the scan fails as a
\* whole: nothing is emitted for that text, nothing runs after the
\* failure, and the caller receives no token sequence.
C7_FailureIsAtomic ==
  /\ [](pc = "panicked" =>
          /\ returned = NoResult
          /\ Len(tokens) = Len(Emitted)
          /\ \A j \in 1..Len(tokens) : tokens[j] = Emitted[j].token
          /\ cursor = IF matches = <<>> THEN 0 ELSE matches[Len(matches)].after)
  /\ [][pc # "panicked"]_vars

C7_Witness == pc = "panicked" /\ Len(tokens) >= 1

\* the unconsumed text a committed match was made in
SuffixOf(r) == Sub(code, r.at, Len(code))

NoEntryAtCursor ==
  \A i \in 1..Len(TOKEN_REGEXES) :
    MatchAt(TOKEN_REGEXES[i], unparsed_code(code, cursor), 0) = NoMatch

T(type, lexeme) == [type |-> type, lexeme |-> lexeme]

OperatorsTokens ==
  << T("BinaryOperator", <<"+">>), T("BinaryOperator", <<"-">>),
     T("BinaryOperator", <<"/">>), T("BinaryOperator", <<"*">>),
     T("BinaryOperator", <<"=", "=">>), T("BinaryOperator", <<"!", "=">>),
     T("BinaryOperator", <<">", "=">>), T("BinaryOperator", <<">">>),
     T("BinaryOperator", <<"<", "=">>), T("BinaryOperator", <<"<">>),
     T("AssignmentOperator", <<"=">>), T("AssignmentOperator", <<"+", "=">>),
     T("AssignmentOperator", <<"-", "=">>), T("AssignmentOperator", <<"*", "=">>),
     T("AssignmentOperator", <<"/", "=">>) >>

IfElseTokens ==
  << T("Keyword", <<"i", "f">>), T("Identifier", <<"a">>),
     T("BinaryOperator", <<"=", "=">>), T("Identifier", <<"b">>),
     T("Delimiter", <<"{">>), T("Identifier", <<"a">>),
     T("UnaryOperator", <<"+", "+">>), T("Delimiter", <<";">>),
     T("Delimiter", <<"}">>), T("Keyword", <<"e", "l", "s", "e">>),
     T("Delimiter", <<"{">>), T("UnaryOperator", <<"-", "-">>),
     T("Identifier", <<"a">>), T("Delimiter", <<";">>),
     T("Delimiter", <<"}">>) >>

\* the text of a compound operator of the table
Compound ==
  { TOKEN_REGEXES[i].text : i \in {j \in 1..Len(TOKEN_REGEXES) :
      TOKEN_REGEXES[j].kind = "lit" /\ Len(TOKEN_REGEXES[j].text) = 2} }

\* the offset just past the whole matched span of a committed match
SpanEnd(r) == r.at + r.g0[2]

\* the operator list yields its 15 operators in order and the if/else
\* statement its 15 tokens
OperatorExamples ==
  /\ code \in {OperatorsInput, IfElseInput} => pc # "panicked"
  /\ (pc = "done" /\ code = OperatorsInput) => returned = Returned(OperatorsTokens)
  /\ (pc = "done" /\ code = IfElseInput) => returned = Returned(IfElseTokens)

\* a compound operator standing at the cursor is emitted whole
CompoundAtCursor ==
  \A n \in 1..Len(matches) :
    \A w \in Compound :
      HasAt(code, matches[n].at, w) =>
        matches[n].token.lexeme = w \/ matches[n].type = "None"

\* C10: a compound operator is always emitted as one token: the operator
\* list and the if/else statement yield their 15 tokens each, and a
\* compound operator that follows a matched span directly (no whitespace)
\* is the next token, whole.
C10_CompoundOperators ==
  /\ OperatorExamples
  /\ CompoundAtCursor
  /\ \A n \in 1..(Len(matches) - 1) :
       \A w \in Compound :
         HasAt(code, SpanEnd(matches[n]), w) =>
           /\ matches[n + 1].at = SpanEnd(matches[n])
           /\ matches[n + 1].token.lexeme = w

\* the reserved words and the category of each
Reserved ==
  {<<Keywords[i], "Keyword">> : i \in 1..Len(Keywords)}
    \cup {<<DataTypes[i], "DataType">> : i \in 1..Len(DataTypes)}

\* the text w stands at offset k of c as a whole whitespace-separated word
WholeWordAt(c, k, w) ==
  /\ HasAt(c, k, w)
  /\ (k = 0 \/ c[k] \in SpaceChars)
  /\ (k + Len(w) = Len(c) \/ c[k + Len(w) + 1] \in SpaceChars)

KeywordsTokens == [i \in 1..Len(Keywords) |-> T("Keyword", Keywords[i])]

DataTypesTokens == [i \in 1..Len(DataTypes) |-> T("DataType", DataTypes[i])]

\* C11: a reserved word standing at the cursor as a whole
\* whitespace-separated word is committed as one Keyword or DataType token
\* whose lexeme is the word, never as an Identifier; the keyword list and
\* the data-type list yield exactly their 8 and 3 tokens.
C11_ReservedWords ==
  /\ \A n \in 1..Len(matches) :
       \A rw \in Reserved :
         WholeWordAt(code, matches[n].at, rw[1]) =>
           /\ matches[n].type = rw[2]
           /\ matches[n].token = T(rw[2], rw[1])
           /\ \E j \in 1..Len(tokens) : tokens[j] = T(rw[2], rw[1])
  /\ code \in {KeywordsInput, DataTypesInput} => pc # "panicked"
  /\ (pc = "done" /\ code = KeywordsInput) => returned = Returned(KeywordsTokens)
  /\ (pc = "done" /\ code = DataTypesInput) => returned = Returned(DataTypesTokens)

C11_Witness ==
  /\ pc = "done"
  /\ \E j \in 1..Len(tokens) : tokens[j].type = "Identifier"
  /\ \E j \in 1..Len(tokens) : tokens[j].type = "Keyword"

\* C12: the tokens are in source order: each committed match starts at or
\* after the end of the span of the one before it, so spans never
\* overlap, and the vector holds the tokens of the committed matches in
\* that order.
C12_SourceOrder ==
  /\ \A n \in 1..(Len(matches) - 1) :
       /\ matches[n + 1].at >= SpanEnd(matches[n])
       /\ matches[n + 1].at >= matches[n].after
  /\ Len(tokens) = Len(Emitted)
  /\ \A j \in 1..Len(tokens) : tokens[j] = Emitted[j].token
  /\ returned.ok => returned.tokens = tokens

C12_Witness ==
  /\ pc = "done"
  /\ Len(tokens) >= 3
  /\ \E n \in 1..Len(matches) : matches[n].skipped

Self ==
  [code |-> code, cursor |-> cursor, tokens |-> tokens, pc |-> pc,
   returned |-> returned, failure |-> failure]

RECURSIVE RunAlone(_)
\* the final state of a scan that runs alone from the scan state st
RunAlone(st) ==
  IF st.pc \in {"done", "panicked"} THEN st ELSE RunAlone(ScanStep(st))

\* C14: under every interleaving of the calls of two scans, each scan ends
\* as it does when it runs alone (same tokens, same result or failure),
\* and a call of one scan changes nothing of the other.
C14_IndependentScans ==
  /\ [](Finished => Self = RunAlone(Started(code)))
  /\ [](other.pc \in {"done", "panicked"} => other = RunAlone(Started(other.code)))
  /\ [][pc # "init" =>
          /\ other' # other => Self' = Self
          /\ Self' # Self => other' = other]_vars

\* both scans are in mid-scan, at different offsets
C14_Witness ==
  /\ pc = "call" /\ cursor > 0 /\ has_more_tokens(code, cursor)
  /\ other.pc = "recurse" /\ other.cursor > 0
  /\ other.cursor # cursor
  /\ code # other.code

\* C15: the lexeme of every token that is not a quoted literal is the
\* source text of the whole matched span: code[c .. c+n], c the cursor at
\* the match and n the length of the match.
C15_VerbatimLexeme ==
  /\ Len(tokens) = Len(Emitted)
  /\ \A j \in 1..Len(tokens) :
       tokens[j].type \notin Quoted =>
         /\ tokens[j].type = Emitted[j].type
         /\ tokens[j].lexeme =
              Sub(code, Emitted[j].at, Emitted[j].at + SpanLen(Emitted[j]))

C15_Witness ==
  /\ pc = "done"
  /\ Cardinality({j \in 1..Len(tokens) :
       tokens[j].type \notin Quoted /\ Len(tokens[j].lexeme) >= 2}) >= 2

\* C16: after a skipped match, the continued search returns None (parse
\* returns its tokens) when the text is used up, not a failure; when an
\* entry matches what follows, it goes on, and the token it returns is the
\* one committed at the cursor left by the skipped match.
C16_DiscardThenContinue ==
  [][pc = "recurse" =>
       IF cursor >= Len(code)
         THEN pc' = "done" /\ returned' = Returned(tokens)
         ELSE /\ ~NoEntryAtCursor => pc' \in {"call", "recurse"}
              /\ pc' = "call" =>
                   /\ Len(matches') = Len(matches) + 1
                   /\ matches'[Len(matches')].at = cursor
                   /\ tokens' = Append(tokens, matches'[Len(matches')].token)]_vars

\* the last match of the scan was a skipped one that used up the text
C16_Witness ==
  /\ pc = "done"
  /\ Len(tokens) >= 1
  /\ matches # <<>>
  /\ matches[Len(matches)].skipped
  /\ SpanEnd(matches[Len(matches)]) = Len(code)

\* C17: when parse returns, the spans of the committed matches cover the
\* input exactly once: the first starts at 0, each next one starts where
\* the one before it ends, and the last ends at the end of the input.
C17_SpansCoverInput ==
  (pc = "done" /\ matches # <<>>) =>
    /\ matches[1].at = 0
    /\ \A n \in 1..(Len(matches) - 1) : matches[n + 1].at = SpanEnd(matches[n])
    /\ SpanEnd(matches[Len(matches)]) = Len(code)

\* C18: with the cursor at the end of the input, get_next_token returns
\* None and leaves the cursor, the input and the tokens as they are, also
\* on every later call.
C18_EndOfInputAbsorbing ==
  /\ [](pc = "done" => cursor >= Len(code) /\ returned = Returned(tokens))
  /\ [][(pc \in {"call", "recurse", "done"} /\ cursor >= Len(code)) =>
          /\ pc' = "done"
          /\ returned' = Returned(tokens)
          /\ UNCHANGED <<code, cursor, tokens, failure, matches>>]_vars

C18_Witness ==
  /\ pc = "done"
  /\ extra = MaxExtraCalls
  /\ Len(tokens) >= 1
  /\ cursor = Len(code)

====
